---- MODULE Spec2Model ----
(***************************************************************************)
(* A model of goftpd's access-control core (package acl): the credential  *)
(* store BadgerAuthenticator over a transactional key/value store, and    *)
(* the ACL decision procedure ACL.Allowed.                                 *)
(*                                                                         *)
(* Spec       the Authenticator, called concurrently by NumSessions       *)
(*            sessions; every badger transaction is one atomic step.      *)
(* SpecACL    ACL.Allowed applied to every ACL and identity of the        *)
(*            bounded universes below.                                     *)
(* SpecParse  NewFromString applied to every ACL text of up to MaxText    *)
(*            characters.                                                  *)
(* SpecRule   NewRule applied to rule lines of up to MaxFields fields.    *)
(* SpecPerm   NewPermissions applied to up to MaxRules Rules, then        *)
(*            Permissions.Allowed on the result.                           *)
(* SpecPASS   the USER and PASS steps of one session over a store of      *)
(*            registered users.                                            *)
(* SpecREST   the REST command of a logged-in session.                    *)
(* SpecAPPE   the APPE command of a logged-in session.                    *)
(***************************************************************************)
EXTENDS Naturals, Sequences, FiniteSets, TLC

\* ------------------------------------------------------------------ bounds

\* concurrent sessions sharing the Authenticator
NumSessions == 2
\* longest users/groups/flags slice of a collection
MaxPreds == 1
\* longest groups/flags slice of an identity
MaxMember == 1
\* longest ACL text given to NewFromString, in characters
MaxText == 5
\* most fields of a rule line given to NewRule
MaxFields == 4
\* most Rules given to NewPermissions
MaxRules == 2
\* most parameters sent with a PASS command
MaxParams == 2
\* longest REST parameter, in characters (the edge values of int apart)
MaxParamLen == 3

Sessions == 1..NumSessions

\* ---------------------------------------------------------------- universes

UserNames == {"alice", "bob"}
GroupNames == {"staff", "admin"}
Passwords == {"pw", "wrong"}
\* the salts bcrypt may draw when it hashes a password
Salts == {"salt1", "salt2"}

\* no value: an argument a call does not take, a read fault that is not
\* recorded, a password never set
Nil == ""
\* a nil pointer, and a pointer to x
NilPtr == <<>>
Ptr(x) == <<x>>
\* the value of a key the store does not hold
Absent == <<>>

\* ------------------------------------------------------------------ errors

NoErr == "nil"
ErrUserExists == "user exists"
ErrUserDoesntExist == "user does not exist"
ErrGroupExists == "group exists"
ErrGroupDoesntExist == "group does not exist"
ErrStub == "stub"
ErrKeyNotFound == "Key not found"
\* failures of the store itself and of the msgpack codec
ErrIO == "store i/o error"
ErrDecode == "msgpack decode error"

\* what the environment does to one read transaction / one write transaction
ReadFaults == {NoErr, ErrIO, ErrDecode}
WriteFaults == {NoErr, ErrIO}

\* ------------------------------------------------------------------- state

VARIABLES
    db,        \* the badger store: key -> encoded value, or Absent
    pc,        \* per session: where its Authenticator call stands
    pending,   \* per session: the arguments of its AddUser call in progress
    last,      \* the call that returned most recently, and what it returned
    origin,    \* history: per user name, the password whose hash is stored
    acl,       \* SpecACL: the ACL under test
    user,      \* SpecACL: the identity under test
    allowed,   \* SpecACL: <<>>, then <<what ACL.Allowed returned>>
    input,     \* the arguments of the call under test (parser, rules, lookup)
    output,    \* <<>>, then <<what the call under test returned>>
    sess       \* SpecPASS: the session of one client connection

authVars == <<db, pc, pending, last, origin>>
aclVars == <<acl, user, allowed>>
callVars == <<input, output>>
ftpVars == <<sess>>
\* what the Authenticator's calls leave alone
nonAuthVars == <<aclVars, callVars, ftpVars>>
vars == <<db, pc, pending, last, origin, acl, user, allowed, input, output, sess>>

\* ------------------------------------------------------------ entries, keys

\* Entry.Key(): "<kind>:<name>"
UserKey(name) == <<"user", name>>
GroupKey(name) == <<"group", name>>
Keys == {UserKey(n) : n \in UserNames} \cup {GroupKey(g) : g \in GroupNames}

\* bcrypt.GenerateFromPassword: a salted one-way hash; the hash carries its
\* salt and the digest of salt and password
Digest(salt, pass) == <<"bcrypt", salt, pass>>
GenerateFromPassword(pass, salt) == <<"$2a$", salt, Digest(salt, pass)>>
\* []byte(pass): the bytes of the plaintext
Bytes(pass) == <<pass>>
\* bcrypt.CompareHashAndPassword: what is not a hash is refused; else hash
\* pass with the salt of hashed, compare
CompareHashAndPassword(hashed, pass) ==
    IF Len(hashed) # 3 THEN "hashedSecret too short"
    ELSE IF hashed = GenerateFromPassword(pass, hashed[2]) THEN NoErr
    ELSE "mismatch"

\* the msgpack encoding of a User, and its decoding
EncodeUser(u) == <<"msgpack", u.Name, u.Password>>
DecodeUser(val) == [Name |-> val[2], Password |-> val[3]]
EncodeGroup(g) == <<"msgpack", g.Name>>

\* ------------------------------------------------------------ transactions

\* getAndDecode: one View transaction; fault is what the store does to it
getAndDecode(store, key, fault) ==
    IF fault = ErrIO THEN [err |-> ErrIO, val |-> NilPtr]
    ELSE IF store[key] = Absent THEN [err |-> ErrKeyNotFound, val |-> NilPtr]
    ELSE IF fault = ErrDecode THEN [err |-> ErrDecode, val |-> NilPtr]
    ELSE [err |-> NoErr, val |-> Ptr(DecodeUser(store[key]))]

\* encodeAndUpdate: one Update transaction that only Sets e.Key()
encodeAndUpdate(store, key, bytes, fault) ==
    IF fault # NoErr THEN [err |-> fault, store |-> store]
    ELSE [err |-> NoErr, store |-> [store EXCEPT ![key] = bytes]]

\* GetUser: (user, error)
GetUserResult(store, name, fault) ==
    LET r == getAndDecode(store, UserKey(name), fault) IN
    IF r.err # NoErr
    THEN IF r.err = ErrKeyNotFound
         THEN [err |-> ErrUserDoesntExist, val |-> NilPtr]
         ELSE [err |-> r.err, val |-> NilPtr]
    ELSE [err |-> NoErr, val |-> r.val]

\* GetGroup: (group, error)
GetGroupResult(store, name) == [err |-> ErrStub, val |-> NilPtr]

\* CheckPassword that forgets to compare the password with the stored hash
CheckPasswordResult_NoCompare(store, name, pass, fault) ==
    LET r == GetUserResult(store, name, fault) IN
    IF r.err # NoErr THEN FALSE ELSE TRUE

\* CheckPassword that treats only a missing user as a failure of the fetch
CheckPasswordResult_FailOpen(store, name, pass, fault) ==
    LET r == GetUserResult(store, name, fault) IN
    IF r.err = ErrUserDoesntExist THEN FALSE
    ELSE IF r.err # NoErr THEN TRUE
    ELSE IF CompareHashAndPassword(r.val[1].Password, pass) # NoErr THEN FALSE
    ELSE TRUE

\* CheckPassword: bool
CheckPasswordResult(store, name, pass, fault) ==
    LET r == GetUserResult(store, name, fault) IN
    IF r.err # NoErr THEN FALSE
    ELSE IF CompareHashAndPassword(r.val[1].Password, pass) # NoErr THEN FALSE
    ELSE TRUE

\* -------------------------------------------------------------------- Init

NoCall == [op |-> "none"]
NoPending == [name |-> Nil, pass |-> Nil]
EmptyCollection == [all |-> FALSE, users |-> <<>>, groups |-> <<>>, flags |-> <<>>]

\* the states of a session that the PASS command names
SessionStateAuth == "auth"
SessionStateLoggedIn == "loggedin"
\* a session that has neither a login name nor logged in
NewSession ==
    [state |-> SessionStateAuth, login |-> "",
     \* the int restartPosition, in decimal; the data connection; the
     \* connections that were closed
     restartPosition |-> <<"0">>, data |-> NilPtr, closed |-> {}]

\* no call under test, no session activity
InitCall == input = <<>> /\ output = <<>>
InitSess == sess = NewSession

InitAuth ==
    /\ db = [k \in Keys |-> Absent]
    /\ pc = [s \in Sessions |-> "idle"]
    /\ pending = [s \in Sessions |-> NoPending]
    /\ last = NoCall
    /\ origin = [n \in UserNames |-> Nil]

Init ==
    /\ InitAuth
    /\ acl = [allowed |-> EmptyCollection, blocked |-> EmptyCollection]
    /\ user = [name |-> "alice", groups |-> <<>>, flags |-> <<>>]
    /\ allowed = <<>>
    /\ InitCall
    /\ InitSess

\* ----------------------------------------------------------- Authenticator

\* a call returns r to its caller; fault is what the store did to the read of
\* a GetUser or CheckPassword call
Return(op, name, pass, fault, r) ==
    last' = [op |-> op, name |-> name, pass |-> pass, fault |-> fault, ret |-> r]

\* AddUser without the `err == nil` return: an existing user is overwritten
AddUser_GetUser_NoExistsCheck(s, name, pass, fault) ==
    /\ pc[s] = "idle"
    /\ LET r == GetUserResult(db, name, fault) IN
       IF r.err # NoErr /\ r.err # ErrUserDoesntExist
       THEN /\ Return("AddUser", name, pass, Nil, [err |-> r.err, val |-> NilPtr])
            /\ UNCHANGED <<pc, pending>>
       ELSE /\ pc' = [pc EXCEPT ![s] = "AddUser_update"]
            /\ pending' = [pending EXCEPT ![s] = [name |-> name, pass |-> pass]]
            /\ UNCHANGED last
    /\ UNCHANGED <<db, origin, nonAuthVars>>

\* AddUser up to its return or to the end of a.GetUser, a View transaction
AddUser_GetUser(s, name, pass, fault) ==
    /\ pc[s] = "idle"
    /\ LET r == GetUserResult(db, name, fault) IN
       IF r.err = NoErr
       THEN /\ Return("AddUser", name, pass, Nil, [err |-> ErrUserExists, val |-> NilPtr])
            /\ UNCHANGED <<pc, pending>>
       ELSE IF r.err # ErrUserDoesntExist
       THEN /\ Return("AddUser", name, pass, Nil, [err |-> r.err, val |-> NilPtr])
            /\ UNCHANGED <<pc, pending>>
       ELSE /\ pc' = [pc EXCEPT ![s] = "AddUser_update"]
            /\ pending' = [pending EXCEPT ![s] = [name |-> name, pass |-> pass]]
            /\ UNCHANGED last
    /\ UNCHANGED <<db, origin, nonAuthVars>>

\* AddUser that stores the bytes of the password as they are
AddUser_Update_Plaintext(s, salt, fault) ==
    /\ pc[s] = "AddUser_update"
    /\ LET name == pending[s].name
           pass == pending[s].pass
           u == [Name |-> name, Password |-> Bytes(pass)]
           w == encodeAndUpdate(db, UserKey(u.Name), EncodeUser(u), fault) IN
       /\ db' = w.store
       /\ IF w.err # NoErr
          THEN /\ Return("AddUser", name, pass, Nil, [err |-> w.err, val |-> NilPtr])
               /\ UNCHANGED origin
          ELSE /\ Return("AddUser", name, pass, Nil, [err |-> NoErr, val |-> Ptr(u)])
               /\ origin' = [origin EXCEPT ![name] = pass]
    /\ pc' = [pc EXCEPT ![s] = "idle"]
    /\ pending' = [pending EXCEPT ![s] = NoPending]
    /\ UNCHANGED nonAuthVars

\* the rest of AddUser: the password is hashed (no store access), then
\* a.encodeAndUpdate(u), an Update transaction of its own
AddUser_Update(s, salt, fault) ==
    /\ pc[s] = "AddUser_update"
    /\ LET name == pending[s].name
           pass == pending[s].pass
           hashed == GenerateFromPassword(pass, salt)
           u == [Name |-> name, Password |-> hashed]
           w == encodeAndUpdate(db, UserKey(u.Name), EncodeUser(u), fault) IN
       /\ db' = w.store
       /\ IF w.err # NoErr
          THEN /\ Return("AddUser", name, pass, Nil, [err |-> w.err, val |-> NilPtr])
               /\ UNCHANGED origin
          ELSE /\ Return("AddUser", name, pass, Nil, [err |-> NoErr, val |-> Ptr(u)])
               /\ origin' = [origin EXCEPT ![name] = pass]
    /\ pc' = [pc EXCEPT ![s] = "idle"]
    /\ pending' = [pending EXCEPT ![s] = NoPending]
    /\ UNCHANGED nonAuthVars

\* AddGroup: a.GetGroup(name) decides; only ErrGroupDoesntExist lets it go on
AddGroup(s, name, fault) ==
    /\ pc[s] = "idle"
    /\ LET r == GetGroupResult(db, name) IN
       IF r.err = NoErr
       THEN /\ Return("AddGroup", name, Nil, Nil, [err |-> ErrGroupExists, val |-> NilPtr])
            /\ UNCHANGED db
       ELSE IF r.err # ErrGroupDoesntExist
       THEN /\ Return("AddGroup", name, Nil, Nil, [err |-> r.err, val |-> NilPtr])
            /\ UNCHANGED db
       ELSE LET g == [Name |-> name]
                w == encodeAndUpdate(db, GroupKey(name), EncodeGroup(g), fault) IN
            /\ db' = w.store
            /\ IF w.err # NoErr
               THEN Return("AddGroup", name, Nil, Nil, [err |-> w.err, val |-> NilPtr])
               ELSE Return("AddGroup", name, Nil, Nil, [err |-> NoErr, val |-> Ptr(g)])
    /\ UNCHANGED <<pc, pending, origin, nonAuthVars>>

GetUser(s, name, fault) ==
    /\ pc[s] = "idle"
    /\ Return("GetUser", name, Nil, fault, GetUserResult(db, name, fault))
    /\ UNCHANGED <<db, pc, pending, origin, nonAuthVars>>

GetGroup(s, name) ==
    /\ pc[s] = "idle"
    /\ Return("GetGroup", name, Nil, Nil, GetGroupResult(db, name))
    /\ UNCHANGED <<db, pc, pending, origin, nonAuthVars>>

\* SaveUser: errors.New("stub")
SaveUser(s, name) ==
    /\ pc[s] = "idle"
    /\ Return("SaveUser", name, Nil, Nil, [err |-> ErrStub])
    /\ UNCHANGED <<db, pc, pending, origin, nonAuthVars>>

\* SaveGroup: errors.New("stub")
SaveGroup(s, name) ==
    /\ pc[s] = "idle"
    /\ Return("SaveGroup", name, Nil, Nil, [err |-> ErrStub])
    /\ UNCHANGED <<db, pc, pending, origin, nonAuthVars>>

\* DeleteUser: errors.New("stub")
DeleteUser(s, name) ==
    /\ pc[s] = "idle"
    /\ Return("DeleteUser", name, Nil, Nil, [err |-> ErrStub])
    /\ UNCHANGED <<db, pc, pending, origin, nonAuthVars>>

\* DeleteGroup: errors.New("stub")
DeleteGroup(s, name) ==
    /\ pc[s] = "idle"
    /\ Return("DeleteGroup", name, Nil, Nil, [err |-> ErrStub])
    /\ UNCHANGED <<db, pc, pending, origin, nonAuthVars>>

CheckPassword(s, name, pass, fault) ==
    /\ pc[s] = "idle"
    /\ Return("CheckPassword", name, pass, fault,
              [ok |-> CheckPasswordResult(db, name, pass, fault)])
    /\ UNCHANGED <<db, pc, pending, origin, nonAuthVars>>

ChangePassword(s, name, pass) ==
    /\ pc[s] = "idle"
    /\ Return("ChangePassword", name, pass, Nil, [err |-> ErrStub])
    /\ UNCHANGED <<db, pc, pending, origin, nonAuthVars>>

Next ==
    \/ \E s \in Sessions, n \in UserNames, p \in Passwords, f \in ReadFaults :
          AddUser_GetUser(s, n, p, f)
    \/ \E s \in Sessions, salt \in Salts, f \in WriteFaults : AddUser_Update(s, salt, f)
    \/ \E s \in Sessions, g \in GroupNames, f \in WriteFaults : AddGroup(s, g, f)
    \/ \E s \in Sessions, n \in UserNames, f \in ReadFaults : GetUser(s, n, f)
    \/ \E s \in Sessions, g \in GroupNames : GetGroup(s, g)
    \/ \E s \in Sessions, n \in UserNames : SaveUser(s, n)
    \/ \E s \in Sessions, g \in GroupNames : SaveGroup(s, g)
    \/ \E s \in Sessions, n \in UserNames : DeleteUser(s, n)
    \/ \E s \in Sessions, g \in GroupNames : DeleteGroup(s, g)
    \/ \E s \in Sessions, n \in UserNames, p \in Passwords, f \in ReadFaults :
          CheckPassword(s, n, p, f)
    \/ \E s \in Sessions, n \in UserNames, p \in Passwords : ChangePassword(s, n, p)

Spec == Init /\ [][Next]_vars
\* --------------------------------------------------------------------- ACL

\* strings.ToLower on the strings of the universes
ToLower(e) ==
    CASE e = "Alice" -> "alice"
      [] e = "Staff" -> "staff"
      [] e = "A" -> "a"
      [] OTHER -> e

\* collection.has: the slice holds the lower-cased element
has(s, e) == \E idx \in 1..Len(s) : s[idx] = ToLower(e)
hasUser(c, u) == has(c.users, u)
hasGroup(c, g) == has(c.groups, g)
hasFlag(c, f) == has(c.flags, f)

\* ACL.Allowed with the wildcard block checked before the allowed lists
Allowed_BlockAllEarly(a, u) ==
    IF hasUser(a.blocked, u.name) THEN FALSE
    ELSE IF \E idx \in 1..Len(u.groups) : hasGroup(a.blocked, u.groups[idx]) THEN FALSE
    ELSE IF \E idx \in 1..Len(u.flags) : hasFlag(a.blocked, u.flags[idx]) THEN FALSE
    ELSE IF a.blocked.all THEN FALSE
    ELSE IF hasUser(a.allowed, u.name) THEN TRUE
    ELSE IF \E idx \in 1..Len(u.groups) : hasGroup(a.allowed, u.groups[idx]) THEN TRUE
    ELSE IF \E idx \in 1..Len(u.flags) : hasFlag(a.allowed, u.flags[idx]) THEN TRUE
    ELSE IF a.allowed.all THEN TRUE
    ELSE FALSE

\* ACL.Allowed with the allowed lists checked before the blocked lists
Allowed_AllowedFirst(a, u) ==
    IF hasUser(a.allowed, u.name) THEN TRUE
    ELSE IF \E idx \in 1..Len(u.groups) : hasGroup(a.allowed, u.groups[idx]) THEN TRUE
    ELSE IF \E idx \in 1..Len(u.flags) : hasFlag(a.allowed, u.flags[idx]) THEN TRUE
    ELSE IF hasUser(a.blocked, u.name) THEN FALSE
    ELSE IF \E idx \in 1..Len(u.groups) : hasGroup(a.blocked, u.groups[idx]) THEN FALSE
    ELSE IF \E idx \in 1..Len(u.flags) : hasFlag(a.blocked, u.flags[idx]) THEN FALSE
    ELSE IF a.blocked.all THEN FALSE
    ELSE IF a.allowed.all THEN TRUE
    ELSE FALSE

\* ACL.Allowed whose last return allows
Allowed_DefaultAllow(a, u) ==
    IF hasUser(a.blocked, u.name) THEN FALSE
    ELSE IF \E idx \in 1..Len(u.groups) : hasGroup(a.blocked, u.groups[idx]) THEN FALSE
    ELSE IF \E idx \in 1..Len(u.flags) : hasFlag(a.blocked, u.flags[idx]) THEN FALSE
    ELSE IF hasUser(a.allowed, u.name) THEN TRUE
    ELSE IF \E idx \in 1..Len(u.groups) : hasGroup(a.allowed, u.groups[idx]) THEN TRUE
    ELSE IF \E idx \in 1..Len(u.flags) : hasFlag(a.allowed, u.flags[idx]) THEN TRUE
    ELSE IF a.blocked.all THEN FALSE
    ELSE IF a.allowed.all THEN TRUE
    ELSE TRUE

\* ACL.Allowed
Allowed(a, u) ==
    IF hasUser(a.blocked, u.name) THEN FALSE
    ELSE IF \E idx \in 1..Len(u.groups) : hasGroup(a.blocked, u.groups[idx]) THEN FALSE
    ELSE IF \E idx \in 1..Len(u.flags) : hasFlag(a.blocked, u.flags[idx]) THEN FALSE
    ELSE IF hasUser(a.allowed, u.name) THEN TRUE
    ELSE IF \E idx \in 1..Len(u.groups) : hasGroup(a.allowed, u.groups[idx]) THEN TRUE
    ELSE IF \E idx \in 1..Len(u.flags) : hasFlag(a.allowed, u.flags[idx]) THEN TRUE
    ELSE IF a.blocked.all THEN FALSE
    ELSE IF a.allowed.all THEN TRUE
    ELSE FALSE

\* the sequences over S of length at most n
SeqUpTo(S, n) == UNION {[1..k -> S] : k \in 0..n}

\* what a collection's slices hold (lower-cased: NewFromString folds its input)
PredUsers == {"alice"}
PredGroups == {"staff", "admin"}
PredFlags == {"a"}
\* what an identity presents
IdNames == {"Alice", "bob"}
IdGroups == {"Staff", "admin"}
IdFlags == {"A", "b"}

Collections ==
    [all : BOOLEAN, users : SeqUpTo(PredUsers, MaxPreds),
     groups : SeqUpTo(PredGroups, MaxPreds), flags : SeqUpTo(PredFlags, MaxPreds)]
ACLs == [allowed : Collections, blocked : Collections]
Identities ==
    [name : IdNames, groups : SeqUpTo(IdGroups, MaxMember),
     flags : SeqUpTo(IdFlags, MaxMember)]

InitACL ==
    /\ InitAuth
    /\ acl \in ACLs
    /\ user \in Identities
    /\ allowed = <<>>
    /\ InitCall
    /\ InitSess

\* a.Allowed(u) is called and returns
CallAllowed ==
    /\ allowed = <<>>
    /\ allowed' = <<Allowed(acl, user)>>
    /\ UNCHANGED <<acl, user, authVars, callVars, ftpVars>>

NextACL == CallAllowed

SpecACL == InitACL /\ [][NextACL]_vars
\* ----------------------------------------------------------- NewFromString

\* A string the code looks inside (an ACL text, a field, a path) is the
\* sequence of its characters; String makes the Go string of it, which is
\* what the slices of a collection hold.
RECURSIVE String(_)
String(f) == IF f = <<>> THEN "" ELSE f[1] \o String(Tail(f))

\* the characters an ACL text is written in
Chars == {" ", "!", "-", "=", "*", "a", "A"}
Texts == SeqUpTo(Chars, MaxText)

\* strings.ToLower on a text
ToLowerText(s) == [i \in 1..Len(s) |-> ToLower(s[i])]

\* strings.Fields: the maximal runs of non-space characters
RECURSIVE Fields(_)
Fields(s) ==
    IF s = <<>> THEN <<>>
    ELSE IF s[1] = " " THEN Fields(Tail(s))
    ELSE LET end == IF \E i \in 1..Len(s) : s[i] = " "
                    THEN (CHOOSE i \in 1..Len(s) :
                             s[i] = " " /\ \A j \in 1..(i - 1) : s[j] # " ") - 1
                    ELSE Len(s) IN
         <<SubSeq(s, 1, end)>> \o Fields(SubSeq(s, end + 1, Len(s)))

ErrNoInput == "no input string given"
ErrAfterBang == "expected string after '!'"
ErrAfterDash == "expected string after '-'"
ErrAfterEquals == "expected string after '='"

EmptyACL == [allowed |-> EmptyCollection, blocked |-> EmptyCollection]

\* c.all = true, and append(c.<slice>, f), on the collection c points to
SetAll(a, c) == [a EXCEPT ![c].all = TRUE]
AppendTo(a, c, slice, f) == [a EXCEPT ![c][slice] = Append(@, String(f))]

\* the loop body with the unprefixed token appended to c.flags
ParseField_DefaultToFlags(a, f0) ==
    IF Len(f0) = 0 THEN [err |-> NoErr, acl |-> a]
    ELSE IF f0[1] = "!" /\ Len(f0) <= 1 THEN [err |-> ErrAfterBang, acl |-> a]
    ELSE
      LET c == IF f0[1] = "!" THEN "blocked" ELSE "allowed"
          f == IF f0[1] = "!" THEN Tail(f0) ELSE f0 IN
      IF f[1] = "-"
      THEN IF Len(f) <= 1 THEN [err |-> ErrAfterDash, acl |-> a]
           ELSE IF Tail(f) = <<"*">> THEN [err |-> NoErr, acl |-> SetAll(a, c)]
           ELSE [err |-> NoErr, acl |-> AppendTo(a, c, "users", Tail(f))]
      ELSE IF f[1] = "="
      THEN IF Len(f) <= 1 THEN [err |-> ErrAfterEquals, acl |-> a]
           ELSE IF Tail(f) = <<"*">> THEN [err |-> NoErr, acl |-> SetAll(a, c)]
           ELSE [err |-> NoErr, acl |-> AppendTo(a, c, "groups", Tail(f))]
      ELSE IF f = <<"*">> THEN [err |-> NoErr, acl |-> SetAll(a, c)]
           ELSE [err |-> NoErr, acl |-> AppendTo(a, c, "flags", f)]

\* the body of NewFromString's loop for the field f0: what it makes of the
\* ACL a, or the error it returns
ParseField(a, f0) ==
    IF Len(f0) = 0 THEN [err |-> NoErr, acl |-> a]
    ELSE IF f0[1] = "!" /\ Len(f0) <= 1 THEN [err |-> ErrAfterBang, acl |-> a]
    ELSE
      LET c == IF f0[1] = "!" THEN "blocked" ELSE "allowed"
          f == IF f0[1] = "!" THEN Tail(f0) ELSE f0 IN
      IF f[1] = "-"
      THEN IF Len(f) <= 1 THEN [err |-> ErrAfterDash, acl |-> a]
           ELSE IF Tail(f) = <<"*">> THEN [err |-> NoErr, acl |-> SetAll(a, c)]
           ELSE [err |-> NoErr, acl |-> AppendTo(a, c, "users", Tail(f))]
      ELSE IF f[1] = "="
      THEN IF Len(f) <= 1 THEN [err |-> ErrAfterEquals, acl |-> a]
           ELSE IF Tail(f) = <<"*">> THEN [err |-> NoErr, acl |-> SetAll(a, c)]
           ELSE [err |-> NoErr, acl |-> AppendTo(a, c, "groups", Tail(f))]
      ELSE IF f = <<"*">> THEN [err |-> NoErr, acl |-> SetAll(a, c)]
           ELSE [err |-> NoErr, acl |-> AppendTo(a, c, "groups", f)]

\* the loop going on to the next field when the body returned an error
RECURSIVE ParseFields_SkipRefused(_, _)
ParseFields_SkipRefused(a, fields) ==
    IF fields = <<>> THEN [err |-> NoErr, acl |-> Ptr(a)]
    ELSE ParseFields_SkipRefused(ParseField(a, Head(fields)).acl, Tail(fields))

\* the loop over the fields: (*ACL, error)
RECURSIVE ParseFields(_, _)
ParseFields(a, fields) ==
    IF fields = <<>> THEN [err |-> NoErr, acl |-> Ptr(a)]
    ELSE LET r == ParseField(a, Head(fields)) IN
         IF r.err # NoErr THEN [err |-> r.err, acl |-> NilPtr]
         ELSE ParseFields(r.acl, Tail(fields))

\* NewFromString that does not lower-case its input
NewFromString_NoToLower(s) ==
    IF Len(s) = 0 THEN [err |-> ErrNoInput, acl |-> NilPtr]
    ELSE ParseFields(EmptyACL, Fields(s))

\* NewFromString: (*ACL, error)
NewFromString(s) ==
    IF Len(s) = 0 THEN [err |-> ErrNoInput, acl |-> NilPtr]
    ELSE ParseFields(EmptyACL, Fields(ToLowerText(s)))

\* the other variables of a specification of one call under test
InitOther ==
    /\ InitAuth
    /\ acl = EmptyACL
    /\ user = [name |-> "alice", groups |-> <<>>, flags |-> <<>>]
    /\ allowed = <<>>
    /\ InitSess

InitParse ==
    /\ InitOther
    /\ input \in Texts
    /\ output = <<>>

\* NewFromString(input) is called and returns
CallNewFromString ==
    /\ output = <<>>
    /\ output' = <<NewFromString(input)>>
    /\ UNCHANGED <<input, authVars, aclVars, ftpVars>>

NextParse == CallNewFromString

SpecParse == InitParse /\ [][NextParse]_vars

\* ----------------------------------------------------------------- NewRule

\* strings.Join(fields, " ")
RECURSIVE Join(_)
Join(fields) ==
    IF fields = <<>> THEN <<>>
    ELSE IF Len(fields) = 1 THEN fields[1]
    ELSE fields[1] \o <<" ">> \o Join(Tail(fields))

\* the keys of StringToPermissionScope
PermissionScopes ==
    {"download", "upload", "rename", "renameown", "delete", "deleteown",
     "resume", "resumeown", "makedir", "list", "hideuser", "hidegroup"}

ErrMinFields == "rule requires minimum of 3 fields"
ErrUnknownScope(f) == "unknown permission scope '" \o String(f) \o "'"

\* Rule{}: no path, no scope, no ACL
ZeroRule == [path |-> <<>>, scope |-> "", acl |-> NilPtr]

\* NewRule: (Rule, error).  The scope word (a symbol of its own in a line)
\* is looked up, the path is kept as it is written, the other fields are
\* joined again for NewFromString; the Rule handed back with an ACL error
\* keeps the scope and the path, as TestNewRule expects of it.
NewRule(line) ==
    LET fields == Fields(line) IN
    IF Len(fields) < 3 THEN [err |-> ErrMinFields, rule |-> ZeroRule]
    ELSE IF String(fields[1]) \notin PermissionScopes
    THEN [err |-> ErrUnknownScope(fields[1]), rule |-> ZeroRule]
    ELSE LET r == NewFromString(Join(SubSeq(fields, 3, Len(fields))))
             parsed == [path |-> fields[2], scope |-> String(fields[1]), acl |-> NilPtr] IN
         IF r.err # NoErr THEN [err |-> r.err, rule |-> parsed]
         ELSE [err |-> NoErr, rule |-> [parsed EXCEPT !.acl = r.acl]]

\* the fields rule lines are made of: scope words, a path, ACL tokens
RuleFields ==
    {<<"download">>, <<"notexist">>, <<"/", "d">>, <<"*">>, <<"-", "A">>,
     <<"!">>, <<"=">>}
Lines == {Join(fields) : fields \in SeqUpTo(RuleFields, MaxFields)}

InitRule ==
    /\ InitOther
    /\ input \in Lines
    /\ output = <<>>

\* NewRule(input) is called and returns
CallNewRule ==
    /\ output = <<>>
    /\ output' = <<NewRule(input)>>
    /\ UNCHANGED <<input, authVars, aclVars, ftpVars>>

NextRule == CallNewRule

SpecRule == InitRule /\ [][NextRule]_vars

\* ------------------------------------------------------------- Permissions

\* the segments of a path: the maximal runs of characters other than '/'
RECURSIVE Segments(_)
Segments(path) ==
    IF path = <<>> THEN <<>>
    ELSE IF path[1] = "/" THEN Segments(Tail(path))
    ELSE LET end == IF \E i \in 1..Len(path) : path[i] = "/"
                    THEN (CHOOSE i \in 1..Len(path) :
                             path[i] = "/" /\ \A j \in 1..(i - 1) : path[j] # "/") - 1
                    ELSE Len(path) IN
         <<SubSeq(path, 1, end)>> \o Segments(SubSeq(path, end + 1, Len(path)))

\* the path anc is the path p or an ancestor of it, segment by segment
IsAncestorOrEqual(anc, p) ==
    /\ Len(Segments(anc)) <= Len(Segments(p))
    /\ SubSeq(Segments(p), 1, Len(Segments(anc))) = Segments(anc)

ErrPathExists(r) ==
    "path '" \o String(r.path) \o "' for scope '" \o r.scope \o "' already exists"

\* a Permissions: for every scope the Rules inserted for it
EmptyPermissions == [scope \in PermissionScopes |-> <<>>]

\* the Rules are inserted one by one; a path the scope already holds fails
RECURSIVE InsertRules(_, _)
InsertRules(p, rules) ==
    IF rules = <<>> THEN [err |-> NoErr, perms |-> Ptr(p)]
    ELSE LET r == Head(rules) IN
         IF \E i \in 1..Len(p[r.scope]) : p[r.scope][i].path = r.path
         THEN [err |-> ErrPathExists(r), perms |-> NilPtr]
         ELSE InsertRules([p EXCEPT ![r.scope] = Append(@, r)], Tail(rules))

\* NewPermissions that puts a Rule in the place of the one with its path
RECURSIVE NewPermissions_Overwrite(_)
NewPermissions_Overwrite(rules) ==
    IF rules = <<>> THEN [err |-> NoErr, perms |-> Ptr(EmptyPermissions)]
    ELSE LET r == rules[Len(rules)]
             p == NewPermissions_Overwrite(SubSeq(rules, 1, Len(rules) - 1)).perms[1]
             others == SelectSeq(p[r.scope], LAMBDA e : e.path # r.path) IN
         [err |-> NoErr, perms |-> Ptr([p EXCEPT ![r.scope] = Append(others, r)])]

\* NewPermissions: (*Permissions, error)
NewPermissions(rules) == InsertRules(EmptyPermissions, rules)

\* the Rule a lookup selects: none, or the one with the longest path
NoRule == [ok |-> FALSE, rule |-> NilPtr]

\* Permissions.Allowed that is content with a path that is a prefix of the
\* queried path as a string
PermissionsAllowed_StringPrefix(p, scope, path, u) ==
    LET rules == p[scope]
        matching == {i \in 1..Len(rules) :
                        /\ Len(rules[i].path) <= Len(path)
                        /\ SubSeq(path, 1, Len(rules[i].path)) = rules[i].path} IN
    IF rules = <<>> THEN NoRule
    ELSE IF matching = {} THEN NoRule
    ELSE LET best == CHOOSE i \in matching :
                        \A j \in matching : Len(rules[j].path) <= Len(rules[i].path) IN
         [ok |-> Allowed(rules[best].acl[1], u), rule |-> Ptr(rules[best])]

\* Permissions.Allowed that asks the rules of every scope
PermissionsAllowed_AnyScope(p, scope, path, u) ==
    \* every Rule of p, whatever its scope, that sits on the path; the longest
    LET all == UNION {{p[s][i] : i \in 1..Len(p[s])} : s \in PermissionScopes}
        matching == {r \in all : IsAncestorOrEqual(r.path, path)} IN
    IF matching = {} THEN NoRule
    ELSE LET best == CHOOSE r \in matching :
                        \A q \in matching : Len(Segments(q.path)) <= Len(Segments(r.path)) IN
         [ok |-> Allowed(best.acl[1], u), rule |-> Ptr(best)]

\* Permissions.Allowed: the decision, and the Rule whose ACL made it
PermissionsAllowed(p, scope, path, u) ==
    LET rules == p[scope]
        matching == {i \in 1..Len(rules) : IsAncestorOrEqual(rules[i].path, path)} IN
    IF rules = <<>> THEN NoRule
    ELSE IF matching = {} THEN NoRule
    ELSE LET best == CHOOSE i \in matching :
                        \A j \in matching :
                           Len(Segments(rules[j].path)) <= Len(Segments(rules[i].path)) IN
         [ok |-> Allowed(rules[best].acl[1], u), rule |-> Ptr(rules[best])]

\* the Rules NewRule makes of the lines "<scope> <path> <token>"
PermScopes == {<<"download">>, <<"upload">>}
PermPaths == {<<"/">>, <<"/", "d">>, <<"/", "d", "/", "a">>, <<"/", "d", "a">>}
PermTokens == {<<"*">>, <<"-", "a">>}
PermRules ==
    {NewRule(Join(<<s, p, k>>)).rule : s \in PermScopes, p \in PermPaths, k \in PermTokens}
\* who asks
PermIdentities ==
    {[name |-> "a", groups |-> <<>>, flags |-> <<>>],
     [name |-> "b", groups |-> <<>>, flags |-> <<>>]}

InitPerm ==
    /\ InitAuth
    /\ InitSess
    /\ acl = EmptyACL
    /\ input \in [rules : SeqUpTo(PermRules, MaxRules),
                   scope : {String(s) : s \in PermScopes}, path : PermPaths]
    /\ user \in PermIdentities
    /\ output = <<>>
    /\ allowed = <<>>

\* NewPermissions(input.rules) is called and returns
CallNewPermissions ==
    /\ output = <<>>
    /\ output' = <<NewPermissions(input.rules)>>
    /\ UNCHANGED <<input, authVars, aclVars, ftpVars>>

\* p.Allowed(input.scope, input.path, user) is called on the Permissions made
CallPermissionsAllowed ==
    /\ output # <<>> /\ output[1].err = NoErr
    /\ allowed = <<>>
    /\ allowed' = <<PermissionsAllowed(output[1].perms[1], input.scope, input.path, user)>>
    /\ UNCHANGED <<input, output, acl, user, authVars, ftpVars>>

NextPerm == CallNewPermissions \/ CallPermissionsAllowed

SpecPerm == InitPerm /\ [][NextPerm]_vars

\* -------------------------------------------------------------------- PASS

\* the replies PASS sends
StatusSyntaxError == "StatusSyntaxError"
StatusBadCommandSequence == "StatusBadCommandSequence"
StatusNotLoggedIn == "StatusNotLoggedIn"
StatusUserLoggedIn == "StatusUserLoggedIn"

\* what writing a reply to the client may return
ReplyFaults == {NoErr, ErrIO}
\* the parameters a client may send with PASS
PassParams == SeqUpTo(Passwords, MaxParams)

\* a store the Authenticator can have made: who is registered, with what
RegisteredStore(reg) ==
    [k \in Keys |->
        IF k[1] = "user" /\ reg[k[2]] # Nil
        THEN EncodeUser([Name |-> k[2],
                         Password |-> GenerateFromPassword(reg[k[2]], "salt1")])
        ELSE Absent]

InitPASS ==
    /\ \E reg \in [UserNames -> Passwords \cup {Nil}] :
          /\ origin = reg
          /\ db = RegisteredStore(reg)
    /\ pc = [s \in Sessions |-> "idle"]
    /\ pending = [s \in Sessions |-> NoPending]
    /\ last = NoCall
    /\ acl = EmptyACL
    /\ user = [name |-> "alice", groups |-> <<>>, flags |-> <<>>]
    /\ allowed = <<>>
    /\ InitCall
    /\ InitSess

\* Execute returned: the reply it sent and the error it returned
Replied(params, fault, status, err) ==
    last' = [op |-> "PASS", name |-> sess.login, params |-> params, fault |-> fault,
             ret |-> [status |-> status, err |-> err]]

\* the USER step before PASS: it gives the session its login name
USER(name) ==
    /\ sess.state = SessionStateAuth
    /\ sess' = [sess EXCEPT !.login = name]
    /\ last' = [op |-> "USER", name |-> name]
    /\ UNCHANGED <<db, pc, pending, origin, aclVars, callVars>>

\* PASS that logs the session in although the welcome could not be sent
PASS_LoginDespiteReplyError(params, fault, replyErr) ==
    /\ sess.state = SessionStateAuth
    /\ IF Len(params) # 1
       THEN /\ Replied(params, fault, StatusSyntaxError, replyErr)
            /\ UNCHANGED sess
       ELSE IF sess.login = ""
       THEN /\ Replied(params, fault, StatusBadCommandSequence, replyErr)
            /\ UNCHANGED sess
       ELSE IF ~CheckPasswordResult(db, sess.login, params[1], fault)
       THEN /\ sess' = [sess EXCEPT !.login = ""]
            /\ Replied(params, fault, StatusNotLoggedIn, replyErr)
       ELSE /\ sess' = [sess EXCEPT !.state = SessionStateLoggedIn]
            /\ Replied(params, fault, StatusUserLoggedIn, replyErr)
    /\ UNCHANGED <<db, pc, pending, origin, aclVars, callVars>>

\* commandPASS.Execute, called in the state the command requires; fault is
\* what the store does to CheckPassword's read, replyErr what writing the
\* reply returns
PASS(params, fault, replyErr) ==
    /\ sess.state = SessionStateAuth
    /\ IF Len(params) # 1
       THEN /\ Replied(params, fault, StatusSyntaxError, replyErr)
            /\ UNCHANGED sess
       ELSE IF sess.login = ""
       THEN /\ Replied(params, fault, StatusBadCommandSequence, replyErr)
            /\ UNCHANGED sess
       ELSE IF ~CheckPasswordResult(db, sess.login, params[1], fault)
       THEN /\ sess' = [sess EXCEPT !.login = ""]
            /\ Replied(params, fault, StatusNotLoggedIn, replyErr)
       ELSE IF replyErr # NoErr
       THEN /\ sess' = [sess EXCEPT !.login = ""]
            /\ Replied(params, fault, StatusUserLoggedIn, replyErr)
       ELSE /\ sess' = [sess EXCEPT !.state = SessionStateLoggedIn]
            /\ Replied(params, fault, StatusUserLoggedIn, NoErr)
    /\ UNCHANGED <<db, pc, pending, origin, aclVars, callVars>>

NextPASS ==
    \/ \E n \in UserNames : USER(n)
    \/ \E params \in PassParams, f \in ReadFaults, e \in ReplyFaults : PASS(params, f, e)

SpecPASS == InitPASS /\ [][NextPASS]_vars

\* -------------------------------------------------------------------- REST

StatusPendingMoreInfo == "StatusPendingMoreInfo"

ErrSyntax == "invalid syntax"
ErrRange == "value out of range"

Digits == {"0", "1", "2", "3", "4", "5", "6", "7", "8", "9"}
DigitVal(ch) ==
    CASE ch = "0" -> 0 [] ch = "1" -> 1 [] ch = "2" -> 2 [] ch = "3" -> 3
      [] ch = "4" -> 4 [] ch = "5" -> 5 [] ch = "6" -> 6 [] ch = "7" -> 7
      [] ch = "8" -> 8 [] ch = "9" -> 9

\* a run of digits without its leading zeros: the magnitude of a number
RECURSIVE StripZeros(_)
StripZeros(ds) ==
    IF ds # <<>> /\ ds[1] = "0" THEN StripZeros(Tail(ds)) ELSE ds

\* the magnitude a is greater than the magnitude b
GreaterMag(a, b) ==
    \/ Len(a) > Len(b)
    \/ /\ Len(a) = Len(b)
       /\ \E i \in 1..Len(a) :
             /\ DigitVal(a[i]) > DigitVal(b[i])
             /\ \A j \in 1..(i - 1) : a[j] = b[j]

\* the magnitudes of the largest and of the smallest int (64 bits)
MaxIntMag ==
    <<"9", "2", "2", "3", "3", "7", "2", "0", "3", "6", "8", "5", "4", "7", "7",
      "5", "8", "0", "7">>
MinIntMag ==
    <<"9", "2", "2", "3", "3", "7", "2", "0", "3", "6", "8", "5", "4", "7", "7",
      "5", "8", "0", "8">>

\* strconv.Atoi: an optional sign, then digits and nothing else, within the
\* range of int; the value is kept in decimal, without sign when it is 0
Atoi(s) ==
    LET signed == s # <<>> /\ s[1] \in {"+", "-"}
        neg == s # <<>> /\ s[1] = "-"
        ds == IF signed THEN Tail(s) ELSE s
        mag == StripZeros(ds) IN
    IF ds = <<>> \/ \E i \in 1..Len(ds) : ds[i] \notin Digits
    THEN [err |-> ErrSyntax, val |-> <<"0">>]
    ELSE IF GreaterMag(mag, IF neg THEN MinIntMag ELSE MaxIntMag)
    THEN [err |-> ErrRange, val |-> IF neg THEN <<"-">> \o MinIntMag ELSE MaxIntMag]
    ELSE IF mag = <<>> THEN [err |-> NoErr, val |-> <<"0">>]
    ELSE [err |-> NoErr, val |-> IF neg THEN <<"-">> \o mag ELSE mag]

\* REST that stores what Atoi returned before it looks at the error
REST_AssignBeforeCheck(params, replyErr) ==
    /\ sess.state = SessionStateLoggedIn
    /\ output = <<>>
    /\ IF Len(params) # 1
       THEN /\ output' = <<[status |-> StatusSyntaxError, err |-> replyErr]>>
            /\ UNCHANGED sess
       ELSE LET r == Atoi(params[1]) IN
            /\ sess' = [sess EXCEPT !.restartPosition = r.val]
            /\ IF r.err # NoErr
               THEN output' = <<[status |-> StatusSyntaxError, err |-> replyErr]>>
               ELSE output' = <<[status |-> StatusPendingMoreInfo, err |-> replyErr]>>
    /\ UNCHANGED <<input, authVars, aclVars>>

\* commandREST.Execute, called in the state the command requires; replyErr
\* is what writing the reply returns
REST(params, replyErr) ==
    /\ sess.state = SessionStateLoggedIn
    /\ output = <<>>
    /\ IF Len(params) # 1
       THEN /\ output' = <<[status |-> StatusSyntaxError, err |-> replyErr]>>
            /\ UNCHANGED sess
       ELSE LET r == Atoi(params[1]) IN
            IF r.err # NoErr
            THEN /\ output' = <<[status |-> StatusSyntaxError, err |-> replyErr]>>
                 /\ UNCHANGED sess
            ELSE /\ sess' = [sess EXCEPT !.restartPosition = r.val]
                 /\ output' = <<[status |-> StatusPendingMoreInfo, err |-> replyErr]>>
    /\ UNCHANGED <<input, authVars, aclVars>>

\* the characters of a REST parameter, and the parameters a client may send
RestChars == {"0", "7", "-", "+", "x"}
RestTexts ==
    SeqUpTo(RestChars, MaxParamLen)
       \cup {MaxIntMag, MinIntMag, <<"-">> \o MinIntMag, <<"-">> \o MinIntMag \o <<"0">>}
RestParams ==
    {<<>>} \cup {<<s>> : s \in RestTexts}
       \cup {p \in SeqUpTo({<<"7">>, <<"x">>}, MaxParams) : Len(p) > 1}
\* restart positions an earlier REST may have left
RestPositions == {Atoi(s).val : s \in {<<"0">>, <<"7">>, <<"-", "7">>}}

\* a session that has logged in
LoggedIn(s) == [s EXCEPT !.state = SessionStateLoggedIn, !.login = "alice"]

InitREST ==
    /\ InitAuth
    /\ acl = EmptyACL
    /\ user = [name |-> "alice", groups |-> <<>>, flags |-> <<>>]
    /\ allowed = <<>>
    /\ \E pos \in RestPositions :
          sess = [LoggedIn(NewSession) EXCEPT !.restartPosition = pos]
    /\ input \in RestParams
    /\ output = <<>>

NextREST == \E e \in ReplyFaults : REST(input, e)

SpecREST == InitREST /\ [][NextREST]_vars

\* -------------------------------------------------------------------- APPE

StatusCantOpenDataConnection == "StatusCantOpenDataConnection"
StatusTransferStatusOK == "StatusTransferStatusOK"
StatusActionNotOK == "StatusActionNotOK"
StatusDataClosedOK == "StatusDataClosedOK"

ErrPermissionDenied == "permission denied"

\* Execute returned err after it had sent the replies and had, or had not,
\* called ResumeUploadFile ("not called", "refused" or "opened")
Returned(replies, resume, err) ==
    output' = <<[replies |-> replies, resume |-> resume, err |-> err]>>

\* the deferred calls, last first: s.ClearData(), then Close() on the
\* connection s.Data() returned when the defer statement ran
Deferred(conn) ==
    sess' = [sess EXCEPT !.data = NilPtr, !.closed = @ \cup {conn}]

\* APPE that returns a refused upload before it has deferred the close
APPE_RefusedBeforeDefer(params, env) ==
    /\ sess.state = SessionStateLoggedIn
    /\ output = <<>>
    /\ IF Len(params) = 0
       THEN /\ Returned(<<StatusSyntaxError>>, "not called", env.replyErr)
            /\ UNCHANGED sess
       ELSE IF sess.data = NilPtr
       THEN /\ Returned(<<StatusCantOpenDataConnection>>, "not called", env.replyErr)
            /\ UNCHANGED sess
       ELSE IF ~env.userOk
       THEN /\ Returned(<<StatusNotLoggedIn>>, "not called", env.replyErr)
            /\ UNCHANGED sess
       ELSE IF env.openErr # NoErr
       THEN /\ Returned(<<>>, "not called", env.openErr)
            /\ UNCHANGED sess
       ELSE IF env.resumeErr # NoErr
       THEN /\ Returned(<<StatusTransferStatusOK, StatusActionNotOK>>, "refused",
                        env.replyErr)
            /\ UNCHANGED sess
       ELSE IF env.copyErr # NoErr
       THEN /\ Returned(<<StatusTransferStatusOK, StatusActionNotOK>>, "opened",
                        env.replyErr)
            /\ Deferred(sess.data[1])
       ELSE /\ Returned(<<StatusTransferStatusOK, StatusDataClosedOK>>, "opened",
                        env.replyErr)
            /\ Deferred(sess.data[1])
    /\ UNCHANGED <<input, authVars, aclVars>>

\* commandAPPE.Execute, called in the state the command requires.  env is
\* what the surroundings do: whether s.User() has a user, what writing the
\* opening reply and the last reply returns, what ResumeUploadFile and
\* io.Copy return.  s.DataProtected() chooses the text of the opening reply
\* only, and replies are kept by their status.
APPE(params, env) ==
    /\ sess.state = SessionStateLoggedIn
    /\ output = <<>>
    /\ IF Len(params) = 0
       THEN /\ Returned(<<StatusSyntaxError>>, "not called", env.replyErr)
            /\ UNCHANGED sess
       ELSE IF sess.data = NilPtr
       THEN /\ Returned(<<StatusCantOpenDataConnection>>, "not called", env.replyErr)
            /\ UNCHANGED sess
       ELSE IF ~env.userOk
       THEN /\ Returned(<<StatusNotLoggedIn>>, "not called", env.replyErr)
            /\ UNCHANGED sess
       ELSE IF env.openErr # NoErr
       THEN /\ Returned(<<>>, "not called", env.openErr)
            /\ UNCHANGED sess
       ELSE IF env.resumeErr # NoErr
       THEN /\ Returned(<<StatusTransferStatusOK, StatusActionNotOK>>, "refused",
                        env.replyErr)
            /\ Deferred(sess.data[1])
       ELSE IF env.copyErr # NoErr
       THEN /\ Returned(<<StatusTransferStatusOK, StatusActionNotOK>>, "opened",
                        env.replyErr)
            /\ Deferred(sess.data[1])
       ELSE \* s.ClearData(), the closing reply, then the deferred calls
            /\ Returned(<<StatusTransferStatusOK, StatusDataClosedOK>>, "opened",
                        env.replyErr)
            /\ Deferred(sess.data[1])
    /\ UNCHANGED <<input, authVars, aclVars>>

\* the file names of a parameter list, and what the surroundings may do
FileNames == {"f", "g"}
AppeEnvs ==
    [userOk : BOOLEAN, openErr : ReplyFaults,
     replyErr : ReplyFaults, resumeErr : {NoErr, ErrPermissionDenied},
     copyErr : {NoErr, ErrIO}]

InitAPPE ==
    /\ InitAuth
    /\ acl = EmptyACL
    /\ user = [name |-> "alice", groups |-> <<>>, flags |-> <<>>]
    /\ allowed = <<>>
    /\ \E d \in {NilPtr, Ptr("conn1")} : sess = [LoggedIn(NewSession) EXCEPT !.data = d]
    /\ input \in [params : SeqUpTo(FileNames, MaxParams), env : AppeEnvs]
    /\ output = <<>>

NextAPPE == APPE(input.params, input.env)

SpecAPPE == InitAPPE /\ [][NextAPPE]_vars

\* ------------------------------------------------------------------ claims

\* a user record of that name is stored
HasUser(store, name) == store[UserKey(name)] # Absent
\* a group record of that name is stored
HasGroup(store, name) == store[GroupKey(name)] # Absent

\* what a slice holds, as a set, and the same with every element lower-cased
Members(s) == {s[i] : i \in 1..Len(s)}
Folded(s) == {ToLower(s[i]) : i \in 1..Len(s)}

\* the first of the nine steps of the documented order that applies
FirstStep(a, u) ==
    IF ToLower(u.name) \in Members(a.blocked.users) THEN 1
    ELSE IF Folded(u.groups) \cap Members(a.blocked.groups) # {} THEN 2
    ELSE IF Folded(u.flags) \cap Members(a.blocked.flags) # {} THEN 3
    ELSE IF ToLower(u.name) \in Members(a.allowed.users) THEN 4
    ELSE IF Folded(u.groups) \cap Members(a.allowed.groups) # {} THEN 5
    ELSE IF Folded(u.flags) \cap Members(a.allowed.flags) # {} THEN 6
    ELSE IF a.blocked.all THEN 7
    ELSE IF a.allowed.all THEN 8
    ELSE 9
\* steps 4, 5, 6 and 8 allow; steps 1, 2, 3, 7 and 9 deny
StepAllows(k) == k \in {4, 5, 6, 8}

\* the identity matches a user, group or flag predicate of the collection
MatchesList(c, u) ==
    \/ ToLower(u.name) \in Members(c.users)
    \/ Folded(u.groups) \cap Members(c.groups) # {}
    \/ Folded(u.flags) \cap Members(c.flags) # {}

\* C1: a call AddUser(name, _) commits its insert and returns success only
\* while no user of that name is stored (check and insert are one atomic
\* step), so of two concurrent calls for one name at most one succeeds.
C1_AddUserCheckAndInsertAtomic ==
    [][\A s \in Sessions, salt \in Salts :
          (pc[s] = "AddUser_update" /\ AddUser_Update(s, salt, NoErr))
          => ~HasUser(db, pending[s].name)]_vars

\* C2: ACL.Allowed returns the outcome of the first step that applies, in the
\* order blocked users, groups, flags, allowed users, groups, flags,
\* blocked.all, allowed.all, default deny.
C2_AllowedFirstMatchWins ==
    allowed # <<>> => allowed[1] = StepAllows(FirstStep(acl, user))

\* an allowed flag decided although blocked.all is set
C2_Witness ==
    /\ allowed = <<TRUE>>
    /\ FirstStep(acl, user) = 6
    /\ acl.blocked.all

\* C3: an identity matching a blocked user, group or flag predicate is
\* denied whatever the allowed collection holds.
C3_BlockedDominates ==
    (allowed # <<>> /\ MatchesList(acl.blocked, user)) => allowed[1] = FALSE

\* blocked by group although allowed by name and by allowed.all
C3_Witness ==
    /\ allowed = <<FALSE>>
    /\ ~(ToLower(user.name) \in Members(acl.blocked.users))
    /\ Folded(user.groups) \cap Members(acl.blocked.groups) # {}
    /\ ToLower(user.name) \in Members(acl.allowed.users)
    /\ acl.allowed.all

\* C4: with neither wildcard set, an identity matching no predicate of
\* either collection is denied.
C4_DefaultDeny ==
    (/\ allowed # <<>>
     /\ ~acl.allowed.all /\ ~acl.blocked.all
     /\ ~MatchesList(acl.allowed, user) /\ ~MatchesList(acl.blocked, user))
    => allowed[1] = FALSE

\* denied by default although both collections hold predicates and the
\* identity has groups and flags
C4_Witness ==
    /\ allowed = <<FALSE>>
    /\ FirstStep(acl, user) = 9
    /\ acl.allowed.groups # <<>> /\ acl.allowed.users # <<>>
    /\ acl.blocked.flags # <<>>
    /\ user.groups # <<>> /\ user.flags # <<>>

\* C5: AddUser(name, p2) called when a user of that name is stored (and the
\* store serves the read) returns ErrUserExists at once and leaves the store
\* as it was: the stored record still verifies the password it was made from.
C5_SecondAddUserFails ==
    [][\A s \in Sessions, n \in UserNames, p \in Passwords :
          (HasUser(db, n) /\ AddUser_GetUser(s, n, p, NoErr))
          => /\ last'.op = "AddUser" /\ last'.name = n /\ last'.pass = p
             /\ last'.ret = [err |-> ErrUserExists, val |-> NilPtr]
             /\ pc'[s] = "idle"
             /\ db' = db
             /\ CheckPasswordResult(db', n, origin[n], NoErr)]_vars

\* a second AddUser with another password was refused, the first record stays
C5_Witness ==
    /\ last.op = "AddUser"
    /\ last.ret.err = ErrUserExists
    /\ HasUser(db, last.name)
    /\ origin[last.name] # last.pass
    /\ CheckPasswordResult(db, last.name, origin[last.name], NoErr)
    /\ ~CheckPasswordResult(db, last.name, last.pass, NoErr)

\* C6: in every reachable state, CheckPassword(name, pass), when the store
\* serves the read, is true exactly when a user of that name is stored and
\* pass is the password its hash was made from; so was the last one returned.
C6_CheckPasswordExact ==
    /\ \A n \in UserNames, p \in Passwords :
          CheckPasswordResult(db, n, p, NoErr) = (HasUser(db, n) /\ origin[n] = p)
    /\ (last.op = "CheckPassword" /\ last.fault = NoErr)
       => last.ret.ok = (HasUser(db, last.name) /\ origin[last.name] = last.pass)

\* CheckPassword returned true
C6_Witness ==
    /\ last.op = "CheckPassword"
    /\ last.ret.ok = TRUE
    /\ \E n \in UserNames : ~HasUser(db, n)

\* C7: CheckPassword returns the bare boolean false for a missing user, for
\* a wrong password and for any failure of the fetch alike.
C7_CheckPasswordFailuresAlike ==
    /\ \A n \in UserNames, p \in Passwords, f \in ReadFaults :
          (~HasUser(db, n) \/ origin[n] # p \/ f # NoErr)
          => CheckPasswordResult(db, n, p, f) = FALSE
    /\ last.op = "CheckPassword"
       => /\ last.ret \in [ok : BOOLEAN]
          /\ (\/ ~HasUser(db, last.name)
              \/ origin[last.name] # last.pass
              \/ last.fault # NoErr) => last.ret.ok = FALSE

\* the right password of a stored user was refused because the fetch failed
C7_Witness ==
    /\ last.op = "CheckPassword"
    /\ last.fault # NoErr
    /\ HasUser(db, last.name)
    /\ origin[last.name] = last.pass
    /\ last.ret.ok = FALSE

\* C8: AddGroup(name) either persists the group and returns it, or fails
\* with ErrGroupExists because the group is stored (or with the store's own
\* failure).
C8_AddGroupSymmetric ==
    last.op = "AddGroup"
    => \/ /\ last.ret = [err |-> NoErr, val |-> Ptr([Name |-> last.name])]
          /\ db[GroupKey(last.name)] = EncodeGroup([Name |-> last.name])
       \/ last.ret.err = ErrGroupExists
       \/ last.ret.err = ErrIO

\* the GetUser half of C9: sentinel, record, or the failure as it is
GetUserAsSpecified ==
    last.op = "GetUser"
    => last.ret =
         IF last.fault = ErrIO THEN [err |-> ErrIO, val |-> NilPtr]
         ELSE IF ~HasUser(db, last.name) THEN [err |-> ErrUserDoesntExist, val |-> NilPtr]
         ELSE IF last.fault = ErrDecode THEN [err |-> ErrDecode, val |-> NilPtr]
         ELSE [err |-> NoErr, val |-> Ptr(DecodeUser(db[UserKey(last.name)]))]

\* C9: GetUser and GetGroup return the domain sentinel for a name with no
\* stored record, the record for a stored one, and any other failure as is.
C9_GetReturnsRecordOrSentinel ==
    /\ GetUserAsSpecified
    /\ last.op = "GetGroup"
       => IF HasGroup(db, last.name)
          THEN last.ret = [err |-> NoErr, val |-> Ptr([Name |-> last.name])]
          ELSE last.ret = [err |-> ErrGroupDoesntExist, val |-> NilPtr]

\* C10: ChangePassword(name, new) on a stored user succeeds and afterwards
\* only the new password verifies; on a missing user it fails.
C10_ChangePasswordPersists ==
    last.op = "ChangePassword"
    => IF HasUser(db, last.name)
       THEN /\ last.ret.err = NoErr
            /\ \A p \in Passwords :
                  CheckPasswordResult(db, last.name, p, NoErr) = (p = last.pass)
       ELSE last.ret.err # NoErr

\* the fields NewFromString works on, and a field without its leading '!'
Tokens(s) == Fields(ToLowerText(s))
Body(f) == IF f[1] = "!" THEN Tail(f) ELSE f
\* the collection a field selects
Selected(f) == IF f[1] = "!" THEN "blocked" ELSE "allowed"
\* what the tests expect of a wildcard behind a prefix
ErrBadUser == "bad user '*'"
ErrBadGroup == "bad group '*'"

\* identities whose names, groups and flags are spelled in the letters of Chars
ParseIdentities ==
    [name : {"a", "A", "b"}, groups : {<<>>, <<"a">>, <<"A">>},
     flags : {<<>>, <<"a">>, <<"A">>}]
\* the identity with every letter in lower case
LowerIdentity(u) ==
    [name |-> ToLower(u.name),
     groups |-> [i \in 1..Len(u.groups) |-> ToLower(u.groups[i])],
     flags |-> [i \in 1..Len(u.flags) |-> ToLower(u.flags[i])]]
\* a letter in the other case
SwapCase(ch) == IF ch = "a" THEN "A" ELSE IF ch = "A" THEN "a" ELSE ch
\* the texts that differ from s only in the case of letters
CaseVariants(s) ==
    {[i \in 1..Len(s) |-> IF i \in S THEN SwapCase(s[i]) ELSE s[i]] :
        S \in SUBSET {i \in 1..Len(s) : s[i] \in {"a", "A"}}}

C17_PasswordStoredHashed ==
    /\ \A n \in UserNames :
          HasUser(db, n)
          => LET u == DecodeUser(db[UserKey(n)]) IN
             /\ u.Name = n
             /\ u.Password # Bytes(origin[n])
             /\ \E salt \in Salts : u.Password = GenerateFromPassword(origin[n], salt)
    /\ (last.op = "AddUser" /\ last.ret.err = NoErr)
       => LET u == last.ret.val[1] IN
          /\ u.Password # Bytes(last.pass)
          /\ \E salt \in Salts : u.Password = GenerateFromPassword(last.pass, salt)
          /\ db[UserKey(last.name)] = EncodeUser(u)

\* both users are stored, under different salts, and the last AddUser
\* returned the record it stored
C17_Witness ==
    /\ \A n \in UserNames : HasUser(db, n)
    /\ last.op = "AddUser" /\ last.ret.err = NoErr
    /\ \E n, m \in UserNames :
          DecodeUser(db[UserKey(n)]).Password[2] # DecodeUser(db[UserKey(m)]).Password[2]

\* C12: a text whose first field is `-*` or `!-*` is refused with "bad user
\* '*'", one whose first field is `=*` or `!=*` with "bad group '*'", and a
\* text holding such a field anywhere is refused, so no ACL comes of it.
C12_PrefixedWildcardRejected ==
    output # <<>>
    => LET toks == Tokens(input) IN
       /\ (toks # <<>> /\ Body(toks[1]) = <<"-", "*">>) => output[1].err = ErrBadUser
       /\ (toks # <<>> /\ Body(toks[1]) = <<"=", "*">>) => output[1].err = ErrBadGroup
       /\ (\E i \in 1..Len(toks) : Body(toks[i]) \in {<<"-", "*">>, <<"=", "*">>})
          => output[1].err # NoErr /\ output[1].acl = NilPtr

C20_CaseInsensitive ==
    output # <<>>
    => /\ \A s \in CaseVariants(input) : NewFromString(s) = output[1]
       /\ output[1].err = NoErr
          => \A u \in ParseIdentities :
                Allowed(output[1].acl[1], u) = Allowed(output[1].acl[1], LowerIdentity(u))

\* the text "-A =A": the identities A and a are allowed by name and by group
C20_Witness ==
    /\ output # <<>> /\ output[1].err = NoErr
    /\ \E i \in 1..Len(input) : input[i] = "A"
    /\ output[1].acl[1].allowed.users = <<"a">>
    /\ Allowed(output[1].acl[1], [name |-> "A", groups |-> <<>>, flags |-> <<>>])
    /\ Allowed(output[1].acl[1], [name |-> "a", groups |-> <<>>, flags |-> <<>>])
    /\ ~Allowed(output[1].acl[1], [name |-> "b", groups |-> <<>>, flags |-> <<>>])

\* two Rules of the sequence have the same scope and the same path
SameKey(r, q) == r.scope = q.scope /\ r.path = q.path
HasDuplicate(rules) ==
    \E i, j \in 1..Len(rules) : i < j /\ SameKey(rules[i], rules[j])
\* the first Rule of the sequence that repeats the key of an earlier one
FirstDuplicate(rules) ==
    CHOOSE j \in 1..Len(rules) :
       /\ \E i \in 1..(j - 1) : SameKey(rules[i], rules[j])
       /\ ~HasDuplicate(SubSeq(rules, 1, j - 1))
\* the entries of a Permissions, of every scope
Entries(p) == UNION {Members(p[s]) : s \in PermissionScopes}

\* C13: NewPermissions fails, naming the path and the scope of the first
\* Rule that repeats an earlier one, exactly when two Rules of the sequence
\* share scope and path; otherwise it returns a Permissions that holds the
\* Rules given, each under its scope, no two with the same scope and path.
C13_NewPermissionsDuplicates ==
    output # <<>>
    => IF HasDuplicate(input.rules)
       THEN /\ output[1].perms = NilPtr
            /\ LET r == input.rules[FirstDuplicate(input.rules)] IN
               output[1].err =
                  "path '" \o String(r.path) \o "' for scope '" \o r.scope
                     \o "' already exists"
       ELSE /\ output[1].err = NoErr
            /\ LET p == output[1].perms[1] IN
               /\ Entries(p) = Members(input.rules)
               /\ \A s \in PermissionScopes :
                     /\ \A i \in 1..Len(p[s]) : p[s][i].scope = s
                     /\ \A i, j \in 1..Len(p[s]) : i # j => p[s][i].path # p[s][j].path

\* two Rules for download and /d with different ACLs were refused
C13_Witness ==
    /\ output # <<>>
    /\ output[1].err = "path '/d' for scope 'download' already exists"
    /\ Len(input.rules) = 2
    /\ input.rules[1] # input.rules[2]

\* the path rp is the path q or an ancestor of it, read off the strings: rp
\* is q, or the root, or q goes on with a '/' where rp ends
OnPath(rp, q) ==
    \/ rp = q
    \/ rp = <<"/">>
    \/ /\ Len(rp) < Len(q)
       /\ SubSeq(q, 1, Len(rp)) = rp
       /\ q[Len(rp) + 1] = "/"
\* the Rules given for the queried scope that sit on the queried path
Candidates ==
    {r \in Members(input.rules) : r.scope = input.scope /\ OnPath(r.path, input.path)}
\* the Rules in another order
Reordered(rules) ==
    {[i \in 1..Len(rules) |-> rules[f[i]]] : f \in Permutations(1..Len(rules))}

\* C14: when Rules of the queried scope sit on the queried path, the lookup
\* returns what the ACL of the one with the longest path says of the
\* identity; and it returns the same in whatever order the Rules were given.
C14_LongestAncestorDecides ==
    allowed # <<>>
    => /\ Candidates # {}
          => \E r \in Candidates :
                /\ \A q \in Candidates : Len(q.path) <= Len(r.path)
                /\ allowed[1] = [ok |-> Allowed(r.acl[1], user), rule |-> Ptr(r)]
       /\ \A rules \in Reordered(input.rules) :
             PermissionsAllowed(NewPermissions(rules).perms[1],
                                input.scope, input.path, user) = allowed[1]

\* the longer of two Rules on the path denies although the shorter, given
\* first, would allow
C14_Witness ==
    /\ allowed # <<>>
    /\ Cardinality(Candidates) = 2
    /\ allowed[1].ok = FALSE
    /\ Allowed(input.rules[1].acl[1], user)
    /\ Len(input.rules[1].path) < Len(input.rules[2].path)

\* C15: when no Rule of the queried scope sits on the queried path (the
\* scope may have no Rule at all) the lookup returns false and no ACL made
\* the decision.
C15_NoRuleDenies ==
    (allowed # <<>> /\ Candidates = {}) => allowed[1] = [ok |-> FALSE, rule |-> NilPtr]

\* denied although a Rule of another scope on the path, and a Rule of the
\* scope whose path begins the queried path as a string, allow the identity
C15_Witness ==
    /\ allowed = <<[ok |-> FALSE, rule |-> NilPtr]>>
    /\ \E r \in Members(input.rules) :
          r.scope # input.scope /\ OnPath(r.path, input.path) /\ Allowed(r.acl[1], user)
    /\ \E r \in Members(input.rules) :
          /\ r.scope = input.scope /\ ~OnPath(r.path, input.path)
          /\ Len(r.path) < Len(input.path)
          /\ SubSeq(input.path, 1, Len(r.path)) = r.path
          /\ Allowed(r.acl[1], user)

\* a field NewFromString refuses: a lone `!`, or `-` or `=` with nothing
\* behind it; and the error it returns for that field
Malformed(f) == f = <<"!">> \/ Body(f) = <<"-">> \/ Body(f) = <<"=">>
MalformedErr(f) ==
    IF f = <<"!">> THEN ErrAfterBang
    ELSE IF Body(f) = <<"-">> THEN ErrAfterDash
    ELSE ErrAfterEquals
\* the first field from the third on that NewFromString refuses, or 0
FirstMalformed(fields) ==
    IF \E i \in 3..Len(fields) : Malformed(fields[i])
    THEN CHOOSE i \in 3..Len(fields) :
            Malformed(fields[i]) /\ \A j \in 3..(i - 1) : ~Malformed(fields[j])
    ELSE 0

C18_PassLogsInOnlyWhenVerified ==
    [][\A params \in PassParams, f \in ReadFaults, e \in ReplyFaults :
          PASS(params, f, e)
          => LET named == sess.login # "" /\ Len(params) = 1
                 verified == /\ named
                             /\ HasUser(db, sess.login)
                             /\ origin[sess.login] = params[1]
                             /\ f = NoErr IN
             /\ (sess'.state = SessionStateLoggedIn) = (verified /\ e = NoErr)
             /\ ~(verified /\ e = NoErr) => sess'.state = sess.state
             /\ (named /\ ~(verified /\ e = NoErr)) => sess'.login = ""
             /\ (verified /\ e = NoErr) => sess'.login = sess.login
             /\ ~named => sess' = sess]_vars

\* bob has logged in with his password, which is not the one alice is
\* registered with
C18_Witness ==
    /\ sess.state = SessionStateLoggedIn
    /\ sess.login = "bob"
    /\ last.op = "PASS" /\ last.ret = [status |-> StatusUserLoggedIn, err |-> NoErr]
    /\ origin["alice"] # Nil /\ origin["alice"] # origin["bob"]

\* the text is an integer of the range of int written in decimal, and the
\* decimal that names the same integer without sign or zeros to spare
IsIntText(s) ==
    LET ds == IF s # <<>> /\ s[1] \in {"+", "-"} THEN Tail(s) ELSE s IN
    /\ ds # <<>>
    /\ \A i \in 1..Len(ds) : ds[i] \in Digits
    /\ ~GreaterMag(StripZeros(ds), IF s[1] = "-" THEN MinIntMag ELSE MaxIntMag)
Canonical(s) ==
    LET mag == StripZeros(IF s[1] \in {"+", "-"} THEN Tail(s) ELSE s) IN
    IF mag = <<>> THEN <<"0">>
    ELSE IF s[1] = "-" THEN <<"-">> \o mag ELSE mag

\* C22: a REST step with exactly one parameter that is an integer text sets
\* the restart position to that integer and replies StatusPendingMoreInfo;
\* with any other parameter list it replies StatusSyntaxError and leaves the
\* restart position as it was; nothing else of the session changes.
C22_RestSetsPositionOnlyOnInteger ==
    [][\A e \in ReplyFaults :
          REST(input, e)
          => /\ IF Len(input) = 1 /\ IsIntText(input[1])
                THEN /\ sess'.restartPosition = Canonical(input[1])
                     /\ output'[1].status = StatusPendingMoreInfo
                ELSE /\ sess'.restartPosition = sess.restartPosition
                     /\ output'[1].status = StatusSyntaxError
             /\ sess' = [sess EXCEPT !.restartPosition = sess'.restartPosition]]_vars

\* the parameter "-07" set the restart position to -7
C22_Witness ==
    /\ output # <<>> /\ output[1].status = StatusPendingMoreInfo
    /\ input = << <<"-", "0", "7">> >>
    /\ sess.restartPosition = <<"-", "7">>

\* C21: an APPE step that sent the opening reply (parameters, a data
\* connection and a user were there, and the reply was written) ends with
\* that connection closed and no data connection in the session, whether the
\* upload was refused, the copy failed or all went well; an APPE step
\* without parameters, without data connection or without user does not
\* call ResumeUploadFile.
C21_AppeClosesDataConnection ==
    [][APPE(input.params, input.env)
       => LET ready == /\ Len(input.params) > 0
                       /\ sess.data # NilPtr
                       /\ input.env.userOk IN
          /\ (ready /\ input.env.openErr = NoErr)
             => /\ sess'.data = NilPtr
                /\ sess.data[1] \in sess'.closed
                /\ output'[1].replies[1] = StatusTransferStatusOK
          /\ ~ready => output'[1].resume = "not called"]_vars

\* the upload was refused after the opening reply, and the connection is
\* closed and gone from the session
C21_Witness ==
    /\ output # <<>>
    /\ output[1].replies = <<StatusTransferStatusOK, StatusActionNotOK>>
    /\ output[1].resume = "refused"
    /\ sess.data = NilPtr
    /\ sess.closed = {"conn1"}
====
